---- MODULE Spec2Model ----
(***************************************************************************)
(* A model of transcalmod.py: the lumped thermal-resistance calculator     *)
(* (thermal_resistance_1D, _thermal_resistance_1D_calculations) and the    *)
(* symbolic fin solver (class Fin_1D_Model).                               *)
(*                                                                         *)
(* Python values are modelled by what the interpreter does with them:      *)
(*  - a call's outcome is a record: what it returned, the lines it         *)
(*    printed, and the exception it raised ("" when it raised none);       *)
(*  - a dict is the sequence of its <<key, value>> pairs in insertion      *)
(*    order;                                                               *)
(*  - a sympy expression is a term: the temperature solution is the        *)
(*    general solution of the fin equation together with the set of        *)
(*    integration constants still free in it and the boundary equations    *)
(*    that pinned the others.                                              *)
(***************************************************************************)
EXTENDS Integers, Sequences, FiniteSets, TLC

VARIABLES
    built,          \* a Fin_1D_Model instance exists (__init__ returned)
    physics_data,   \* the physics dict handed to __init__
    geometry_data,  \* the geometry dict handed to __init__
    k, h, T_base, T_inf,   \* self.k, self.h, self.T_base, self.T_inf
    A, p, L,        \* self.A, self.p, self.L
    T_sol,          \* self.T_sol
    last,           \* outcome of the last call on the fin model
    rcalc,          \* last call of _thermal_resistance_1D_calculations
    rbatch          \* last call of thermal_resistance_1D

finvars == <<built, physics_data, geometry_data, k, h, T_base, T_inf, A, p, L, T_sol>>
vars == <<finvars, last, rcalc, rbatch>>

----------------------------------------------------------------------------
(* Bounds of the model. *)

\* numeric parameter values are drawn from 1..MaxVal
MaxVal == 2
\* the fin length is drawn from 0..MaxLen, query positions from -1..MaxLen+1
MaxLen == 2
\* thermal_resistance_1D is applied to dicts of at most MaxEntries entries
MaxEntries == 2

----------------------------------------------------------------------------
(* Python values. *)

\* a number given as a numeric literal
PyNum(v) == [t |-> "num", v |-> v]
\* the same constant given as a string, e.g. "2"
PyStr(v) == [t |-> "str", v |-> v]

\* The permutations of a finite set, as sequences.
Perms(S) ==
    {s \in [1..Cardinality(S) -> S] : \A i, j \in 1..Cardinality(S) : s[i] = s[j] => i = j}

\* dict lookup by key: data[key] of a dict held as a sequence of pairs
Lookup(data, key) ==
    LET i == CHOOSE j \in 1..Len(data) : data[j][1] = key IN data[i][2]

----------------------------------------------------------------------------
(* The temperature solution. *)

\* self.T_sol as __init__ leaves it: the Python int 0, not a sympy expression
Unsolved == [sym |-> FALSE, free |-> {}, zeroed |-> {}, eqs |-> <<>>]

\* dsolve(fin_equation).args[1]: the general solution, C1 and C2 both free
GeneralSolution == [sym |-> TRUE, free |-> {"C1", "C2"}, zeroed |-> {}, eqs |-> <<>>]

\* T_sol.subs({C2: 0})
subs_zero(T, c) == [T EXCEPT !.free = @ \ {c}, !.zeroed = @ \cup {c}]

\* a boundary equation of system_eq: a condition on T at a point, "expression = 0"
\*   value: T(at) - rhs      slope: T'(at) - rhs     robin: k*T'(at) + h*T(at) - rhs
Eq(cond, at, rhs) == [cond |-> cond, at |-> at, rhs |-> rhs]

SupportedBC == {"tip_convection", "infinitely_long_fin", "adiabatic_tip", "tip_defined_temperature"}

\* a boundary_condition name the solver does not know
OtherBC == "no_such_condition"

\* solve(system_eq) of sympy on the boundary equations, which are linear in the
\* unknown constants: the set of constants the returned substitution pins.
\*  - no equation: nothing to substitute ([]);
\*  - one equation in the one remaining unknown: that unknown;
\*  - two equations: two conditions of the same kind at the same point have the
\*    same left-hand side, so the system has rank 1: it has no solution ([])
\*    when the right-hand sides differ, and a one-parameter family (C1 in terms
\*    of C2) when they agree; otherwise the system has rank 2 and pins both.
sympy_solve(system_eq, unknowns) ==
    IF Len(system_eq) = 0 THEN {}
    ELSE IF Len(system_eq) = 1 THEN unknowns \cap {"C1"}
    ELSE IF system_eq[1].cond = system_eq[2].cond /\ system_eq[1].at = system_eq[2].at
         THEN IF system_eq[1].rhs = system_eq[2].rhs THEN {"C1"} ELSE {}
         ELSE unknowns

\* T_sol.subs(constants)
subs(T, constants, system_eq) ==
    IF constants = {} THEN T
    ELSE [T EXCEPT !.free = @ \ constants, !.eqs = system_eq]

----------------------------------------------------------------------------
(* Outcomes of calls. *)

\* the Python value None
NoneVal == [kind |-> "None", form |-> "", coef |-> 0, env |-> 0, at |-> 0, T |-> Unsolved]

\* a sympy value: the term `form` built from the temperature solution T
Value(form, coef, env, at, T) ==
    [kind |-> "value", form |-> form, coef |-> coef, env |-> env, at |-> at, T |-> T]

Outcome(op, position, bc, tip, ret, printed, raised) ==
    [op |-> op, position |-> position, boundary_condition |-> bc, tip_temperature |-> tip,
     ret |-> ret, printed |-> printed, raised |-> raised]

NoCall == Outcome("", 0, "", 0, NoneVal, <<>>, "")

\* the console lines of the fin model
MsgUnsupportedBC == "This class doesn't supports this set of boundary conditions"
MsgSolved == "Model solved."
MsgOutOfFin == "Position out of the Fin"
MsgNegative == "The model doesn't supports negative positions."

----------------------------------------------------------------------------
(* Fin_1D_Model.__init__ *)

PhysicsOrder == <<"k", "h", "T_base", "T_env">>
GeometryOrder == <<"cross_area", "perimeter", "length">>

\* _check_data: a string value is handed to sympify, a name the module never
\* imports, so the call raises NameError; otherwise the values come back in the
\* dict's insertion order.
check_data(data) ==
    IF \E i \in 1..Len(data) : data[i][2].t = "str"
    THEN [raised |-> "NameError", values |-> <<>>]
    ELSE [raised |-> "", values |-> [i \in 1..Len(data) |-> data[i][2].v]]

\* __init__(physics, geometry), from the state in which no instance exists; each
\* behaviour follows one instance, so the constructor is called once
Construct(PhysicsInputs, GeometryInputs) ==
    /\ ~built
    /\ last = NoCall
    /\ \E physics \in PhysicsInputs, geometry \in GeometryInputs :
        LET ph == check_data(physics)
            ge == check_data(geometry)
        IN  /\ physics_data' = physics
            /\ geometry_data' = geometry
            /\ IF ph.raised # ""
               THEN /\ last' = Outcome("__init__", 0, "", 0, NoneVal, <<>>, ph.raised)
                    /\ UNCHANGED <<built, k, h, T_base, T_inf, A, p, L, T_sol>>
               ELSE IF ge.raised # ""
               THEN /\ last' = Outcome("__init__", 0, "", 0, NoneVal, <<>>, ge.raised)
                    /\ UNCHANGED <<built, k, h, T_base, T_inf, A, p, L, T_sol>>
               ELSE /\ k' = ph.values[1]
                    /\ h' = ph.values[2]
                    /\ T_base' = ph.values[3]
                    /\ T_inf' = ph.values[4]
                    /\ A' = ge.values[1]
                    /\ p' = ge.values[2]
                    /\ L' = ge.values[3]
                    /\ T_sol' = Unsolved
                    /\ built' = TRUE
                    /\ last' = Outcome("__init__", 0, "", 0, NoneVal, <<>>, "")
    /\ UNCHANGED <<rcalc, rbatch>>

\* the numbers a caller gives under a key: the length may be 0, the rest are positive
NumbersOf(key) == IF key = "length" THEN 0..MaxLen ELSE 1..MaxVal

\* the values a caller gives under a key: numeric literals and, when `typed`,
\* the same constants as strings
ValuesOf(key, typed) ==
    {PyNum(v) : v \in NumbersOf(key)} \cup (IF typed THEN {PyStr(v) : v \in NumbersOf(key)} ELSE {})

AllValues == {PyNum(v) : v \in 0..(IF MaxVal > MaxLen THEN MaxVal ELSE MaxLen)}
                \cup {PyStr(v) : v \in 0..(IF MaxVal > MaxLen THEN MaxVal ELSE MaxLen)}

\* the dicts whose keys are inserted in the order `order`
Dicts(order, typed) ==
    {[i \in 1..Len(order) |-> <<order[i], f[i]>>] :
        f \in {g \in [1..Len(order) -> AllValues] :
                  \A i \in 1..Len(order) : g[i] \in ValuesOf(order[i], typed)}}

\* numeric dicts in the order the docstring lists the keys
DocPhysics == Dicts(PhysicsOrder, FALSE)
DocGeometry == Dicts(GeometryOrder, FALSE)

\* numeric dicts in every insertion order, and docstring-order dicts whose
\* values are numeric literals or strings
BuildPhysics ==
    UNION {Dicts(o, FALSE) : o \in Perms({"k", "h", "T_base", "T_env"})} \cup Dicts(PhysicsOrder, TRUE)
BuildGeometry ==
    UNION {Dicts(o, FALSE) : o \in Perms({"cross_area", "perimeter", "length"})} \cup Dicts(GeometryOrder, TRUE)

----------------------------------------------------------------------------
(* Fin_1D_Model.solve *)

BoundaryConditions == SupportedBC \cup {OtherBC}
TipTemperatures == 0..MaxVal

\* system_eq and the local T_sol, by boundary condition (lines 166-190)
BoundarySystem(boundary_condition, tip_temperature) ==
    IF boundary_condition = "tip_convection" THEN
        [T |-> GeneralSolution,
         eqs |-> <<Eq("robin", L, h * T_inf), Eq("value", 0, T_base)>>,
         printed |-> <<>>]
    ELSE IF boundary_condition = "infinitely_long_fin" THEN
        [T |-> subs_zero(GeneralSolution, "C2"),
         eqs |-> <<Eq("value", 0, T_base)>>,
         printed |-> <<>>]
    ELSE IF boundary_condition = "adiabatic_tip" THEN
        [T |-> GeneralSolution,
         eqs |-> <<Eq("value", 0, T_base), Eq("slope", L, 0)>>,
         printed |-> <<>>]
    ELSE IF boundary_condition = "tip_defined_temperature" THEN
        [T |-> GeneralSolution,
         eqs |-> <<Eq("value", 0, T_base), Eq("value", L, tip_temperature)>>,
         printed |-> <<>>]
    ELSE
        [T |-> GeneralSolution, eqs |-> <<>>, printed |-> <<MsgUnsupportedBC>>]

\* solve(boundary_condition, tip_temperature): the new self.T_sol and the console lines
solve(boundary_condition, tip_temperature) ==
    LET sys == BoundarySystem(boundary_condition, tip_temperature)
        constants == sympy_solve(sys.eqs, sys.T.free)
    IN  [T_sol |-> subs(sys.T, constants, sys.eqs),
         printed |-> sys.printed \o <<MsgSolved>>]

Solve ==
    /\ built
    /\ \E boundary_condition \in BoundaryConditions, tip_temperature \in TipTemperatures :
        LET r == solve(boundary_condition, tip_temperature)
        IN  /\ T_sol' = r.T_sol
            /\ last' = Outcome("solve", 0, boundary_condition, tip_temperature, NoneVal, r.printed, "")
    /\ UNCHANGED <<built, physics_data, geometry_data, k, h, T_base, T_inf, A, p, L, rcalc, rbatch>>

----------------------------------------------------------------------------
(* Fin_1D_Model.get_heat_transfer, get_temperature *)

Positions == (-1)..(MaxLen + 1)

\* the call's return value, console lines and exception
Result(ret, printed, raised) == [ret |-> ret, printed |-> printed, raised |-> raised]

\* get_heat_transfer with the tip excluded: position >= self.L in line 213
get_heat_transfer_tip_excluded(position) ==
    IF position >= L \/ position < 0 THEN
        Result(NoneVal, <<MsgOutOfFin>>, "")
    ELSE IF position = 0 THEN
        IF T_sol.sym
        THEN Result(Value("k*A*diff(T_sol)", k * A, 0, position, T_sol), <<>>, "")
        ELSE Result(NoneVal, <<>>, "AttributeError")
    ELSE
        Result(Value("integrate(h*p*(T_inf-T_sol))", h * p, T_inf, position, T_sol), <<>>, "")

get_heat_transfer(position) ==
    IF position > L \/ position < 0 THEN
        Result(NoneVal, <<MsgOutOfFin>>, "")
    ELSE IF position = 0 THEN
        \* self.T_sol.diff: the int 0 of an unsolved model has no such attribute
        IF T_sol.sym
        THEN Result(Value("k*A*diff(T_sol)", k * A, 0, position, T_sol), <<>>, "")
        ELSE Result(NoneVal, <<>>, "AttributeError")
    ELSE
        \* h*p*(T_inf - T_sol) is a plain number when T_sol is the int 0, and
        \* integrate() integrates it like any other integrand
        Result(Value("integrate(h*p*(T_inf-T_sol))", h * p, T_inf, position, T_sol), <<>>, "")

get_temperature(position) ==
    IF position > L THEN
        \* the message formats self.length, an attribute the class never sets
        Result(NoneVal, <<>>, "AttributeError")
    ELSE IF position < 0 THEN
        Result(NoneVal, <<MsgNegative>>, "")
    ELSE
        IF T_sol.sym
        THEN Result(Value("T_sol.subs", 1, 0, position, T_sol), <<>>, "")
        ELSE Result(NoneVal, <<>>, "AttributeError")

GetHeatTransfer ==
    /\ built
    /\ \E position \in Positions :
        LET r == get_heat_transfer(position)
        IN  last' = Outcome("get_heat_transfer", position, "", 0, r.ret, r.printed, r.raised)
    /\ UNCHANGED <<finvars, rcalc, rbatch>>

GetTemperature ==
    /\ built
    /\ \E position \in Positions :
        LET r == get_temperature(position)
        IN  last' = Outcome("get_temperature", position, "", 0, r.ret, r.printed, r.raised)
    /\ UNCHANGED <<finvars, rcalc, rbatch>>

----------------------------------------------------------------------------
(* _thermal_resistance_1D_calculations *)

\* A resistance value: the number (num/den) * ln(log[1]/log[2]) / pi, where the
\* logarithm factor is absent when log = <<>> and the division by pi when ~pi.
Real(num, den, log, pi) == [kind |-> "value", num |-> num, den |-> den, log |-> log, pi |-> pi]

RNone == [kind |-> "None", num |-> 0, den |-> 1, log |-> <<>>, pi |-> FALSE]

MsgDirection == "This module doesn't supports this direction."
MsgMechanism == "This module doesn't supports this mechanism."

\* Python's a/b
Div(num, den, log, pi) ==
    IF den = 0 THEN Result(RNone, <<>>, "ZeroDivisionError")
    ELSE Result(Real(num, den, log, pi), <<>>, "")

\* the first key of `keys`, in the order the code reads them, that data lacks
MissingKey(data, keys) == \E i \in 1..Len(keys) : keys[i] \notin DOMAIN data

\* line 64
simple_resistance(area, thermal_coefficient) ==
    Div(1, area * thermal_coefficient, <<>>, FALSE)

\* lines 66-75
conduction_resistance(direction, area, thermal_coefficient, data) ==
    IF direction = "axial" THEN
        IF MissingKey(data, <<"length">>) THEN Result(RNone, <<>>, "KeyError")
        ELSE Div(data["length"], area * thermal_coefficient, <<>>, FALSE)
    ELSE IF direction = "cylinder_radial" THEN
        IF MissingKey(data, <<"angle", "length">>) THEN Result(RNone, <<>>, "KeyError")
        ELSE IF thermal_coefficient * data["angle"] * data["length"] = 0
             THEN Result(RNone, <<>>, "ZeroDivisionError")
        ELSE IF MissingKey(data, <<"R_outter", "R_inner">>) THEN Result(RNone, <<>>, "KeyError")
        ELSE IF data["R_inner"] = 0 THEN Result(RNone, <<>>, "ZeroDivisionError")
        ELSE Div(1, thermal_coefficient * data["angle"] * data["length"],
                 <<data["R_outter"], data["R_inner"]>>, FALSE)
    ELSE IF direction = "sphere_radial" THEN
        IF MissingKey(data, <<"R_outter", "R_inner">>) THEN Result(RNone, <<>>, "KeyError")
        ELSE IF data["R_outter"] * data["R_inner"] = 0 THEN Result(RNone, <<>>, "ZeroDivisionError")
        ELSE Div(data["R_outter"] - data["R_inner"],
                 data["R_outter"] * data["R_inner"] * 4 * thermal_coefficient, <<>>, TRUE)
    ELSE
        Result(RNone, <<MsgDirection>>, "")

\* the calculator with 'radiation' missing from the first test of line 63
calculations_without_radiation(mechanism, direction, area, thermal_coefficient, data) ==
    IF mechanism = "contact" \/ mechanism = "convection" THEN
        simple_resistance(area, thermal_coefficient)
    ELSE IF mechanism = "conduction" THEN
        conduction_resistance(direction, area, thermal_coefficient, data)
    ELSE
        Result(RNone, <<MsgMechanism>>, "")

thermal_resistance_1D_calculations(mechanism, direction, area, thermal_coefficient, data) ==
    IF mechanism = "contact" \/ mechanism = "convection" \/ mechanism = "radiation" THEN
        simple_resistance(area, thermal_coefficient)
    ELSE IF mechanism = "conduction" THEN
        conduction_resistance(direction, area, thermal_coefficient, data)
    ELSE
        Result(RNone, <<MsgMechanism>>, "")

\* the inputs of the calculator
Mechanisms == {"contact", "convection", "radiation", "conduction", "induction"}
Directions == {"", "axial", "cylinder_radial", "sphere_radial", "diagonal"}
Areas == 1..MaxVal
Coefficients == 1..MaxVal
DataKeys == {"angle", "length", "R_inner", "R_outter"}
DataValues(key) == IF key \in {"angle", "length"} THEN 0..MaxVal ELSE 1..MaxVal
DataDomains == {{}, {"length"}, {"R_inner", "R_outter"}, DataKeys}
DataDicts ==
    UNION {{d \in [S -> 0..MaxVal] : \A key \in S : d[key] \in DataValues(key)} : S \in DataDomains}

Calc(mechanism, direction, area, thermal_coefficient, data, r) ==
    [called |-> TRUE, mechanism |-> mechanism, direction |-> direction, area |-> area,
     thermal_coefficient |-> thermal_coefficient, data |-> data,
     ret |-> r.ret, printed |-> r.printed, raised |-> r.raised]

NoCalc == [called |-> FALSE]
NoBatch == [called |-> FALSE]

\* one call of the calculator on inputs drawn from the bounded sets; the
\* function keeps no state, so each behaviour examines a single call
Compute ==
    /\ ~rcalc.called /\ ~rbatch.called
    /\ \E mechanism \in Mechanisms, direction \in Directions, area \in Areas,
          thermal_coefficient \in Coefficients, data \in DataDicts :
        rcalc' = Calc(mechanism, direction, area, thermal_coefficient, data,
                      thermal_resistance_1D_calculations(mechanism, direction, area,
                                                         thermal_coefficient, data))
    /\ rbatch' = NoBatch
    /\ UNCHANGED <<finvars, last>>

----------------------------------------------------------------------------
(* thermal_resistance_1D *)

\* a resistance specification: the 5-element list of the docstring
RSpec(mechanism, direction, area, thermal_coefficient, data) ==
    <<mechanism, direction, area, thermal_coefficient, data>>

EmptyData == [key \in {} |-> 0]

\* the specifications the batch is drawn from: one per branch of the calculator
BatchSpecs ==
    {RSpec("contact", "", MaxVal, 1, EmptyData),
     RSpec("conduction", "axial", 1, MaxVal, [key \in {"length"} |-> 1]),
     RSpec("conduction", "cylinder_radial", 1, 1,
           [key \in DataKeys |-> IF key = "R_outter" THEN MaxVal ELSE 1]),
     RSpec("conduction", "sphere_radial", 1, 1,
           [key \in {"R_inner", "R_outter"} |-> IF key = "R_outter" THEN MaxVal ELSE 1]),
     RSpec("conduction", "axial", 1, 1, EmptyData),
     RSpec("conduction", "diagonal", 1, 1, EmptyData),
     RSpec("induction", "", 1, 1, EmptyData)}

Ids == 1..MaxEntries

\* the dicts id -> spec of at most MaxEntries entries, ids distinct
ResistanceDicts ==
    UNION {{d \in [1..n -> Ids \X BatchSpecs] : \A i, j \in 1..n : d[i][1] = d[j][1] => i = j}
           : n \in 0..MaxEntries}

BatchResult(returned, resistances, printed, raised) ==
    [returned |-> returned, resistances |-> resistances, printed |-> printed, raised |-> raised]

\* the report line of an entry; '{:0.4e}'.format(None) raises TypeError
ReportLine(id, value) ==
    IF value.kind = "None" THEN Result(RNone, <<>>, "TypeError")
    ELSE Result(RNone, <<<<id, "= {:0.4e} K/W", value>>>>, "")

\* the loop of lines 55-59 from entry i on, and the return of line 60
RECURSIVE resistance_loop(_, _, _, _, _)
resistance_loop(resistance_dic, suppress, i, resistances, printed) ==
    IF i > Len(resistance_dic) THEN BatchResult(TRUE, resistances, printed, "")
    ELSE
        LET resistance == resistance_dic[i][1]
            spec == resistance_dic[i][2]
            r == thermal_resistance_1D_calculations(spec[1], spec[2], spec[3], spec[4], spec[5])
            line == ReportLine(resistance, r.ret)
        IN  IF r.raised # "" THEN BatchResult(FALSE, <<>>, printed \o r.printed, r.raised)
            ELSE IF ~suppress /\ line.raised # ""
                 THEN BatchResult(FALSE, <<>>, printed \o r.printed, line.raised)
            ELSE resistance_loop(resistance_dic, suppress, i + 1,
                                 Append(resistances, <<resistance, r.ret>>),
                                 printed \o r.printed \o (IF suppress THEN <<>> ELSE line.printed))

thermal_resistance_1D(resistance_dic, suppress) ==
    resistance_loop(resistance_dic, suppress, 1, <<>>, <<>>)

ComputeAll ==
    /\ ~rcalc.called /\ ~rbatch.called
    /\ \E resistance_dic \in ResistanceDicts, suppress \in BOOLEAN :
        rbatch' = [called |-> TRUE, resistance_dic |-> resistance_dic, suppress |-> suppress,
                   out |-> thermal_resistance_1D(resistance_dic, suppress)]
    /\ rcalc' = NoCalc
    /\ UNCHANGED <<finvars, last>>

----------------------------------------------------------------------------
(* Specifications *)

Init ==
    /\ built = FALSE
    /\ physics_data = <<>>
    /\ geometry_data = <<>>
    /\ k = 0 /\ h = 0 /\ T_base = 0 /\ T_inf = 0
    /\ A = 0 /\ p = 0 /\ L = 0
    /\ T_sol = Unsolved
    /\ last = NoCall
    /\ rcalc = NoCalc
    /\ rbatch = NoBatch

\* one fin model built from docstring-order numeric dicts, then solved and queried
Next ==
    \/ Construct(DocPhysics, DocGeometry)
    \/ Solve
    \/ GetHeatTransfer
    \/ GetTemperature

Spec == Init /\ [][Next]_vars

\* construction alone, over every key order and over string-valued parameters
NextBuild == Construct(BuildPhysics, BuildGeometry)

SpecBuild == Init /\ [][NextBuild]_vars

\* the resistance calculator: single calculations and batches
NextRes == Compute \/ ComputeAll

SpecRes == Init /\ [][NextRes]_vars

----------------------------------------------------------------------------
(* Properties *)

\* a call reported an error: it printed a console line or raised
Reported(o) == o.printed # <<>> \/ o.raised # ""

\* C1: solve() with a boundary-condition name outside the four supported ones
\* reports an error and leaves T_sol exactly as it was before the call (stated
\* for fins of positive length, the ones the data model allows).
C1_UnsupportedConditionLeavesSolution ==
    [][(last'.op = "solve" /\ last'.boundary_condition \notin SupportedBC /\ L > 0)
        => (MsgUnsupportedBC \in {last'.printed[i] : i \in 1..Len(last'.printed)}
            /\ T_sol' = T_sol)]_vars

\* C2: while the model is unsolved, every query fails and returns no value to
\* the caller (any reported failure is accepted as the ModelNotSolved error;
\* stated for fins of positive length).
C2_QueryBeforeSolveFails ==
    (last.op \in {"get_heat_transfer", "get_temperature"} /\ T_sol = Unsolved /\ L > 0)
        => (last.ret.kind = "None" /\ Reported(last))

\* the call reported that the position is off the fin: a console line about the
\* position, or a typed position error
ReportsPosition(o) ==
    \/ o.printed # <<>> /\ o.raised = ""
    \/ o.raised = "PositionOutOfRange"

\* C3: on a solved model get_temperature(position) returns a value iff
\* 0 <= position <= L; a negative position is reported as such, a position
\* beyond the tip is reported by a different position-out-of-range error
\* (stated for fins of positive length whose two constants are pinned).
C3_TemperatureRangeErrors ==
    (last.op = "get_temperature" /\ T_sol.sym /\ T_sol.free = {} /\ L > 0)
        => /\ (last.ret.kind = "value") <=> (0 <= last.position /\ last.position <= L)
           /\ last.position < 0 => last.printed = <<MsgNegative>> /\ last.raised = ""
           /\ last.position > L => ReportsPosition(last) /\ last.printed # <<MsgNegative>>

\* the specification is one the calculator should refuse
UnsupportedMechanism(c) == c.mechanism \notin {"contact", "convection", "radiation", "conduction"}
UnsupportedDirection(c) ==
    c.mechanism = "conduction" /\ c.direction \notin {"axial", "cylinder_radial", "sphere_radial"}
InvalidParameter(c) ==
    /\ c.mechanism = "conduction"
    /\ \/ c.direction \in {"axial", "cylinder_radial"}
          /\ "length" \in DOMAIN c.data /\ c.data["length"] <= 0
       \/ c.direction = "cylinder_radial"
          /\ "angle" \in DOMAIN c.data /\ c.data["angle"] <= 0
       \/ c.direction \in {"cylinder_radial", "sphere_radial"}
          /\ {"R_inner", "R_outter"} \subseteq DOMAIN c.data
          /\ c.data["R_outter"] <= c.data["R_inner"]

\* C4: an unsupported mechanism, an unsupported conduction direction and an
\* invalid conduction parameter each end in a reported error and no resistance
\* value, and the three errors are told apart.
C4_InvalidSpecIsAnError ==
    rcalc.called =>
        /\ UnsupportedMechanism(rcalc) =>
              rcalc.ret.kind = "None" /\ rcalc.printed = <<MsgMechanism>>
        /\ UnsupportedDirection(rcalc) =>
              rcalc.ret.kind = "None" /\ rcalc.printed = <<MsgDirection>>
        /\ InvalidParameter(rcalc) =>
              /\ rcalc.ret.kind = "None" /\ Reported(rcalc)
              /\ rcalc.printed \notin {<<MsgMechanism>>, <<MsgDirection>>}

\* what a call of the calculator gives on the inputs of c, with another area or data
Recalc(c, area, data) ==
    thermal_resistance_1D_calculations(c.mechanism, c.direction, area, c.thermal_coefficient, data)

SameResult(c, r) == c.ret = r.ret /\ c.printed = r.printed /\ c.raised = r.raised

\* C5: contact, convection and radiation give 1/(area*thermal_coefficient)
\* whatever the direction and the data; conduction-axial gives
\* length/(area*thermal_coefficient); the radial formulas do not depend on the
\* area, and sphere_radial reads no data key but the two radii.
C5_FormulaByMechanismAndDirection ==
    rcalc.called =>
        LET c == rcalc
            ac == c.area * c.thermal_coefficient
            plain == c.ret.kind = "value" /\ c.ret.den # 0 /\ c.ret.log = <<>> /\ ~c.ret.pi
                        /\ c.printed = <<>> /\ c.raised = ""
        IN  /\ c.mechanism \in {"contact", "convection", "radiation"} =>
                  plain /\ c.ret.num * ac = c.ret.den
            /\ (c.mechanism = "conduction" /\ c.direction = "axial" /\ "length" \in DOMAIN c.data) =>
                  plain /\ c.ret.num * ac = c.ret.den * c.data["length"]
            /\ (c.mechanism = "conduction" /\ c.direction \in {"cylinder_radial", "sphere_radial"}) =>
                  \A area \in Areas : SameResult(c, Recalc(c, area, c.data))
            /\ (c.mechanism = "conduction" /\ c.direction = "sphere_radial"
                  /\ {"R_inner", "R_outter"} \subseteq DOMAIN c.data) =>
                  \A data \in DataDicts :
                      ({"R_inner", "R_outter"} \subseteq DOMAIN data
                          /\ data["R_inner"] = c.data["R_inner"]
                          /\ data["R_outter"] = c.data["R_outter"])
                      => SameResult(c, Recalc(c, c.area, data))

\* a radiation resistance computed with an unused direction and an empty data dict
C5_Witness ==
    /\ rcalc.called
    /\ rcalc.mechanism = "radiation" /\ rcalc.direction = "" /\ rcalc.data = EmptyData
    /\ rcalc.area = MaxVal /\ rcalc.thermal_coefficient = MaxVal
    /\ rcalc.ret.kind = "value" /\ rcalc.ret.den = MaxVal * MaxVal

\* C6: thermal_resistance_1D returns the input ids in insertion order, each with
\* the calculator's value for its own specification, and the report option
\* never changes what is returned.
C6_BatchIndependentOfReport ==
    rbatch.called =>
        LET out == rbatch.out
            other == thermal_resistance_1D(rbatch.resistance_dic, ~rbatch.suppress)
        IN  /\ other.returned = out.returned
            /\ other.resistances = out.resistances
            /\ out.returned =>
                  /\ Len(out.resistances) = Len(rbatch.resistance_dic)
                  /\ \A i \in 1..Len(out.resistances) :
                        LET spec == rbatch.resistance_dic[i][2]
                        IN  /\ out.resistances[i][1] = rbatch.resistance_dic[i][1]
                            /\ out.resistances[i][2] =
                                 thermal_resistance_1D_calculations(
                                     spec[1], spec[2], spec[3], spec[4], spec[5]).ret

\* C7: construction succeeds whether a constant is given as a numeric literal
\* or as a string of the same constant.
C7_StringConstantConstructs ==
    last.op = "__init__" => (built /\ last.raised = "")

\* C8: solve() with a supported boundary condition either stores a solution in
\* which no integration constant is left free, or fails and leaves T_sol as it was.
C8_SolveIsAtomic ==
    [][(last'.op = "solve" /\ last'.boundary_condition \in SupportedBC)
        => \/ T_sol'.sym /\ T_sol'.free = {}
           \/ last'.raised # "" /\ T_sol' = T_sol]_vars

\* C9: on a solved model get_heat_transfer(position) answers position 0 with the
\* base flux k*A*T_sol'(0), every position in (0, L] with the integral over
\* [0, position] of h*p*(T_inf - T_sol), and a position off the fin with no
\* value and the out-of-the-fin report.
C9_HeatTransferDispatch ==
    (last.op = "get_heat_transfer" /\ T_sol.sym)
        => /\ last.position = 0 =>
                 /\ last.ret = Value("k*A*diff(T_sol)", k * A, 0, 0, T_sol)
                 /\ ~Reported(last)
           /\ (0 < last.position /\ last.position <= L) =>
                 /\ last.ret = Value("integrate(h*p*(T_inf-T_sol))", h * p, T_inf, last.position, T_sol)
                 /\ ~Reported(last)
           /\ (last.position < 0 \/ last.position > L) =>
                 /\ last.ret.kind = "None"
                 /\ last.printed = <<MsgOutOfFin>> /\ last.raised = ""

\* the heat lost by the whole fin, asked of a model whose two constants are pinned
C9_Witness ==
    /\ last.op = "get_heat_transfer" /\ T_sol.sym /\ T_sol.free = {}
    /\ L > 0 /\ last.position = L
    /\ last.ret.kind = "value" /\ last.ret.form = "integrate(h*p*(T_inf-T_sol))"

\* C10: construction binds every parameter by its key, whatever the insertion
\* order of the keys in the two dicts.
C10_ParametersBoundByKey ==
    built =>
        /\ k = Lookup(physics_data, "k").v
        /\ h = Lookup(physics_data, "h").v
        /\ T_base = Lookup(physics_data, "T_base").v
        /\ T_inf = Lookup(physics_data, "T_env").v
        /\ A = Lookup(geometry_data, "cross_area").v
        /\ p = Lookup(geometry_data, "perimeter").v
        /\ L = Lookup(geometry_data, "length").v

====
